---------------------------- MODULE Spec2Model ----------------------------
(***************************************************************************)
(* Barnes-Hut quadtree simulation (src/main.cc): tree construction, mass   *)
(* aggregation, force evaluation and the per-frame loop of main.           *)
(*                                                                         *)
(* Numbers.  The program computes in IEEE binary32.  Three kinds of value  *)
(* are kept apart here:                                                    *)
(*  - coordinates that are compared with cell boundaries (point positions, *)
(*    rectangle left/top/width/height) are values of a binary floating     *)
(*    point format with Precision significant bits and quantum 1, rounded  *)
(*    to nearest, ties to even, exactly as binary32 rounds (which has 24   *)
(*    bits and quantum 2^-149);                                            *)
(*  - masses and centers of mass are exact rationals <<num, den>>;         *)
(*  - a velocity is its initial value plus the list of increments added by *)
(*    quad_node_compute_force, each increment kept exactly as the vector   *)
(*    vec / sqrt(over) with rational vec and over.                         *)
(***************************************************************************)
EXTENDS Integers, Naturals, Sequences, FiniteSets, TLC

(***************************************************************************)
(* Bounds of the model.                                                    *)
(***************************************************************************)
Precision == 5
MaxPoints == 2
MaxTicks == 2

(***************************************************************************)
(* Program constants.                                                      *)
(***************************************************************************)
THETA == <<1, 2>>
GRAVITY_CONSTANT == <<1, 10>>
TIME_STEP == 1
SOFTENING == 15
WorldSize == 800
NULL == 0

(***************************************************************************)
(* Exact rationals <<n, d>> with d > 0 and gcd(n, d) = 1.                  *)
(***************************************************************************)
Abs(x) == IF x < 0 THEN -x ELSE x

RECURSIVE GCD(_, _)
GCD(a, b) == IF b = 0 THEN a ELSE GCD(b, a % b)

Rat(n, d) ==
  LET s == IF d < 0 THEN -1 ELSE 1
      g == GCD(Abs(n), Abs(d))
  IN <<(s * n) \div g, (s * d) \div g>>

RInt(n) == <<n, 1>>
RAdd(a, b) ==
  LET g == GCD(a[2], b[2])
  IN Rat(a[1] * (b[2] \div g) + b[1] * (a[2] \div g), (a[2] \div g) * b[2])
RSub(a, b) == RAdd(a, <<-b[1], b[2]>>)
RMul(a, b) ==
  LET x == Rat(a[1], b[2])
      y == Rat(b[1], a[2])
  IN Rat(x[1] * y[1], x[2] * y[2])
RDiv(a, b) == RMul(a, Rat(b[2], b[1]))
RLt(a, b) == a[1] * b[2] < b[1] * a[2]
RZero == <<0, 1>>

VZero == <<RZero, RZero>>
VInt(p) == <<RInt(p[1]), RInt(p[2])>>
VAdd(u, v) == <<RAdd(u[1], v[1]), RAdd(u[2], v[2])>>
VSub(u, v) == <<RSub(u[1], v[1]), RSub(u[2], v[2])>>
VScale(u, r) == <<RMul(u[1], r), RMul(u[2], r)>>
VDivide(u, r) == <<RDiv(u[1], r), RDiv(u[2], r)>>

(***************************************************************************)
(* The floating point format of coordinates: every integer below           *)
(* 2^Precision in magnitude, and above that the multiples of the unit in   *)
(* the last place of their binade.                                         *)
(***************************************************************************)
RECURSIVE Pow2(_)
Pow2(k) == IF k = 0 THEN 1 ELSE 2 * Pow2(k - 1)

RECURSIVE UlpFrom(_, _)
UlpFrom(n, u) == IF n < Pow2(Precision) * u THEN u ELSE UlpFrom(n, 2 * u)

Ulp(n) == UlpFrom(Abs(n), 1)

\* Round the rational h/2 (h a natural number of halves) to the format.
RoundHalvesNat(h) ==
  LET fl == h \div 2
      u == Ulp(fl)
      lo == (fl \div u) * u
      hi == lo + u
      d == h - 2 * lo
  IN IF d < u THEN lo
     ELSE IF d > u THEN hi
     ELSE IF (lo \div u) % 2 = 0 THEN lo ELSE hi

RoundHalves(h) == IF h < 0 THEN -RoundHalvesNat(-h) ELSE RoundHalvesNat(h)

\* float + float, float / 2
FAdd(a, b) == RoundHalves(2 * (a + b))
FHalf(a) == RoundHalves(a)

(***************************************************************************)
(* Points and nodes.  A point is [mass, position, velocity]; a velocity is *)
(* [base, dv]: the initial vector and the increments added so far.  The    *)
(* heap maps the address of every allocated quad_node_t to its fields;     *)
(* born is the tick that allocated the node.                               *)
(***************************************************************************)
NoPoint == [mass |-> 0]

\* F applied to the value of v
Then(v, F(_)) == CHOOSE r \in {F(x) : x \in {v}} : TRUE

point_init(mass, position, velocity) ==
  [mass |-> mass, position |-> position,
   velocity |-> [base |-> velocity, dv |-> <<>>]]

Rect(left, top, width, height) ==
  [left |-> left, top |-> top, width |-> width, height |-> height]

Min(a, b) == IF a < b THEN a ELSE b
Max(a, b) == IF a < b THEN b ELSE a

\* sf::FloatRect::contains
Contains(r, p) ==
  LET minX == Min(r.left, FAdd(r.left, r.width))
      maxX == Max(r.left, FAdd(r.left, r.width))
      minY == Min(r.top, FAdd(r.top, r.height))
      maxY == Max(r.top, FAdd(r.top, r.height))
  IN p[1] >= minX /\ p[1] < maxX /\ p[2] >= minY /\ p[2] < maxY

NewAddr(h) == IF DOMAIN h = {} THEN 1
              ELSE 1 + CHOOSE a \in DOMAIN h : \A b \in DOMAIN h : b <= a

quad_node_init(h, boundary, t) ==
  (NewAddr(h) :> [total_mass |-> 0, center_of_mass |-> VZero,
                  boundary |-> boundary, point |-> NoPoint,
                  children |-> <<NULL, NULL, NULL, NULL>>, born |-> t]) @@ h

RECURSIVE quad_node_free(_, _)
RECURSIVE FreeChildren(_, _, _)
FreeChildren(h, kids, k) ==
  IF k > 4 THEN h
  ELSE Then(quad_node_free(h, kids[k]),
            LAMBDA g : FreeChildren(g, kids, k + 1))

\* delete node
Delete(h, node) == [a \in DOMAIN h \ {node} |-> h[a]]

\* a quad_node_free that deletes the node and forgets its children
FreeRootOnly(h, node) == IF node = NULL THEN h ELSE Delete(h, node)

quad_node_free(h, node) ==
  IF node = NULL THEN h
  ELSE Then(FreeChildren(h, h[node].children, 1),
            LAMBDA g : Delete(g, node))

quad_node_is_leaf(node) == \A k \in 1..4 : node.children[k] = NULL

RECURSIVE InitChildren(_, _, _, _)
InitChildren(h, n, quadrants, k) ==
  IF k > 4 THEN h
  ELSE Then([quad_node_init(h, quadrants[k], h[n].born)
              EXCEPT ![n].children[k] = NewAddr(h)],
            LAMBDA g : InitChildren(g, n, quadrants, k + 1))

quad_node_subdivide(h, n) ==
  LET b == h[n].boundary
      cx == FAdd(b.left, FHalf(b.width))
      cy == FAdd(b.top, FHalf(b.height))
      quadrants == << Rect(b.left, b.top, FHalf(b.width), FHalf(b.height)),
                      Rect(cx, b.top, FHalf(b.width), FHalf(b.height)),
                      Rect(b.left, cy, FHalf(b.width), FHalf(b.height)),
                      Rect(cx, cy, FHalf(b.width), FHalf(b.height)) >>
  IN InitChildren(h, n, quadrants, 1)

\* a subdivision that forgets node->point.reset()
ResetNothing(h, n) == h

\* node->point.reset()
Reset(h, n) == [h EXCEPT ![n].point = NoPoint]

RECURSIVE quad_node_insert(_, _, _)
RECURSIVE InsertChildren(_, _, _, _)
InsertChildren(h, n, point, k) ==
  IF k > 4 THEN h
  ELSE Then(quad_node_insert(h, h[n].children[k], point),
            LAMBDA g : InsertChildren(g, n, point, k + 1))

quad_node_insert(h, n, point) ==
  IF ~Contains(h[n].boundary, point.position) THEN h
  ELSE IF quad_node_is_leaf(h[n])
       THEN IF h[n].point = NoPoint
            THEN [h EXCEPT ![n].point = point]
            ELSE Then(Reset(quad_node_subdivide(h, n), n),
                   LAMBDA h2 :
                     Then(InsertChildren(h2, n, h[n].point, 1),
                          LAMBDA h3 : InsertChildren(h3, n, point, 1)))
       ELSE InsertChildren(h, n, point, 1)

\* an accumulation that forgets to weight the child's center by its mass
AccumulateUnweighted(h, n, c) ==
  [h EXCEPT ![n].total_mass = @ + h[c].total_mass,
            ![n].center_of_mass = VAdd(@, h[c].center_of_mass)]

\* node->total_mass += child->total_mass;
\* node->center_of_mass += child->center_of_mass * child->total_mass
Accumulate(h, n, c) ==
  [h EXCEPT ![n].total_mass = @ + h[c].total_mass,
            ![n].center_of_mass =
               VAdd(@, VScale(h[c].center_of_mass, RInt(h[c].total_mass)))]

\* node->center_of_mass /= node->total_mass, if node->total_mass > 0
Normalize(h, n) ==
  IF h[n].total_mass > 0
  THEN [h EXCEPT ![n].center_of_mass = VDivide(@, RInt(h[n].total_mass))]
  ELSE h

\* node->center_of_mass = {0, 0}; node->total_mass = 0
Clear(h, n) == [h EXCEPT ![n].center_of_mass = VZero, ![n].total_mass = 0]

RECURSIVE quad_node_compute_mass(_, _)
RECURSIVE MassChildren(_, _, _)
MassChildren(h, n, k) ==
  IF k > 4 THEN h
  ELSE Then(quad_node_compute_mass(h, h[n].children[k]),
            LAMBDA g :
              Then(Accumulate(g, n, h[n].children[k]),
                   LAMBDA g2 : MassChildren(g2, n, k + 1)))

quad_node_compute_mass(h, n) ==
  IF quad_node_is_leaf(h[n])
  THEN IF h[n].point # NoPoint
       THEN [h EXCEPT ![n].center_of_mass = VInt(h[n].point.position),
                      ![n].total_mass = h[n].point.mass]
       ELSE h
  ELSE Then(Clear(h, n),
            LAMBDA h0 :
              Then(MassChildren(h0, n, 1), LAMBDA h1 : Normalize(h1, n)))

(***************************************************************************)
(* quad_node_compute_force, as the list of the increments it adds to       *)
(* point->velocity, in the order it adds them.  Each increment is          *)
(* acceleration * TIME_STEP = vec / sqrt(over); src and leaf record the    *)
(* node it was computed from.                                              *)
(***************************************************************************)
Dist2(direction) ==
  RAdd(RAdd(RMul(direction[1], direction[1]), RMul(direction[2], direction[2])),
       RInt(SOFTENING * SOFTENING))

\* the opening test with the comparison reversed: ratio > theta
RatioAbove(width, dist2, theta) ==
  \/ theta[1] = 0
  \/ RLt(dist2, RMul(RDiv(RInt(width), theta), RDiv(RInt(width), theta)))

\* ratio < theta, for ratio = width / distance and distance = sqrt(dist2):
\* both sides are non-negative, so (width / theta)^2 < dist2
RatioBelow(width, dist2, theta) ==
  /\ theta[1] > 0
  /\ RLt(RMul(RDiv(RInt(width), theta), RDiv(RInt(width), theta)), dist2)

Increment(h, n, point) ==
  LET node == h[n]
      direction == VSub(node.center_of_mass, VInt(point.position))
      dist2 == Dist2(direction)
      force == RDiv(RMul(RMul(GRAVITY_CONSTANT, RInt(node.total_mass)),
                         RInt(point.mass)),
                    RAdd(dist2, RInt(SOFTENING * SOFTENING)))
  IN [src |-> n, leaf |-> quad_node_is_leaf(node),
      vec |-> VScale(VDivide(VScale(direction, force), RInt(point.mass)),
                     RInt(TIME_STEP)),
      over |-> dist2]

RECURSIVE ForceTheta(_, _, _, _)
RECURSIVE ForceChildren(_, _, _, _, _)
ForceChildren(h, n, point, theta, k) ==
  IF k > 4 THEN <<>>
  ELSE ForceTheta(h, h[n].children[k], point, theta)
         \o ForceChildren(h, n, point, theta, k + 1)

ForceTheta(h, n, point, theta) ==
  IF h[n].total_mass = 0 \/ VInt(point.position) = h[n].center_of_mass
  THEN <<>>
  ELSE IF \/ quad_node_is_leaf(h[n])
          \/ RatioBelow(h[n].boundary.width,
                        Dist2(VSub(h[n].center_of_mass, VInt(point.position))),
                        theta)
       THEN << Increment(h, n, point) >>
       ELSE ForceChildren(h, n, point, theta, 1)

quad_node_compute_force(h, n, point) == ForceTheta(h, n, point, THETA)

(***************************************************************************)
(* points[i].position += points[i].velocity * TIME_STEP.  The sum is       *)
(* rounded to the coordinate format.  The increments in velocity.dv are    *)
(* each below GRAVITY_CONSTANT * total mass / (2 * SOFTENING^2), far less  *)
(* than half a quantum for the masses of PointChoices, so the rounded sum  *)
(* is that of the coordinate and the initial velocity.                     *)
(***************************************************************************)
Integrated(point) ==
  [point EXCEPT !.position =
     << FAdd(point.position[1], point.velocity.base[1] * TIME_STEP),
        FAdd(point.position[2], point.velocity.base[2] * TIME_STEP) >>]

\* point->velocity += acceleration * TIME_STEP, for every increment
Accelerated(point, incs) ==
  [point EXCEPT !.velocity.dv =
     @ \o [k \in 1..Len(incs) |-> [vec |-> incs[k].vec, over |-> incs[k].over]]]

(***************************************************************************)
(* The points the simulation may start from.                               *)
(***************************************************************************)
PointChoices ==
  { point_init(1, <<0, 0>>, <<0, 0>>),
    point_init(1, <<100, 0>>, <<0, 0>>),
    point_init(2, <<4, 0>>, <<1, 0>>),
    point_init(1, <<24, 0>>, <<0, 0>>),
    point_init(2, <<3, 5>>, <<0, -1>>),
    point_init(1, <<896, 896>>, <<0, 0>>),
    point_init(2, <<-2, 4>>, <<1, 0>>) }

WorldBoundary == Rect(0, 0, WorldSize, WorldSize)

(***************************************************************************)
(* main: the frame loop.                                                   *)
(*   pc    "loop" at the head of the while loop, "build" in the insertion  *)
(*         loop, "force" in the parallel loop, "exit" after the loop.      *)
(*   idx   the insertion loop's i (1-based).                               *)
(*   wpc   per point, the position of the parallel loop's iteration.       *)
(*   pre   the points as they were at the head of the current frame.       *)
(***************************************************************************)
VARIABLES points, heap, root, pc, idx, wpc, tick, pre

vars == <<points, heap, root, pc, idx, wpc, tick, pre>>

Init ==
  /\ \E n \in 1..MaxPoints : points \in [1..n -> PointChoices]
  /\ heap = <<>>
  /\ root = NULL
  /\ pc = "loop"
  /\ idx = 0
  /\ wpc = [i \in DOMAIN points |-> "idle"]
  /\ tick = 0
  /\ pre = points

\* window.isOpen() holds: root = quad_node_init({0, 0, 800, 800})
AllocRoot ==
  /\ pc = "loop"
  /\ tick < MaxTicks
  /\ root' = NewAddr(heap)
  /\ heap' = quad_node_init(heap, WorldBoundary, tick)
  /\ pc' = "build"
  /\ idx' = 1
  /\ pre' = points
  /\ UNCHANGED <<points, wpc, tick>>

\* the window was closed: the loop ends and main returns
Close ==
  /\ pc = "loop"
  /\ pc' = "exit"
  /\ UNCHANGED <<points, heap, root, idx, wpc, tick, pre>>

\* quad_node_insert(root, points[i])
InsertPoint ==
  /\ pc = "build"
  /\ idx <= Len(points)
  /\ heap' = quad_node_insert(heap, root, points[idx])
  /\ idx' = idx + 1
  /\ UNCHANGED <<points, root, pc, wpc, tick, pre>>

\* quad_node_compute_mass(root); the parallel loop starts
Aggregate ==
  /\ pc = "build"
  /\ idx > Len(points)
  /\ heap' = quad_node_compute_mass(heap, root)
  /\ pc' = "force"
  /\ wpc' = [i \in DOMAIN points |-> "todo"]
  /\ UNCHANGED <<points, root, idx, tick, pre>>

\* every iteration writing the same element
StoreFirst(pts, i, p) == [pts EXCEPT ![1] = p]

\* the element the iteration i of the parallel loop writes: points[i]
Store(pts, i, p) == [pts EXCEPT ![i] = p]

\* one iteration of the parallel loop: quad_node_compute_force(*root, &points[i])
ForceEval(i) ==
  /\ pc = "force"
  /\ wpc[i] = "todo"
  /\ points' = Store(points, i,
                     Accelerated(points[i],
                                 quad_node_compute_force(heap, root, points[i])))
  /\ wpc' = [wpc EXCEPT ![i] = "forced"]
  /\ UNCHANGED <<heap, root, pc, idx, tick, pre>>

\* the same iteration: points[i].position += points[i].velocity * TIME_STEP
Integrate(i) ==
  /\ pc = "force"
  /\ wpc[i] = "forced"
  /\ points' = Store(points, i, Integrated(points[i]))
  /\ wpc' = [wpc EXCEPT ![i] = "done"]
  /\ UNCHANGED <<heap, root, pc, idx, tick, pre>>

\* after the parallel loop and the drawing: quad_node_free(root)
FreeTree ==
  /\ pc = "force"
  /\ \A i \in DOMAIN points : wpc[i] = "done"
  /\ heap' = quad_node_free(heap, root)
  /\ root' = NULL
  /\ pc' = "loop"
  /\ tick' = tick + 1
  /\ wpc' = [i \in DOMAIN points |-> "idle"]
  /\ UNCHANGED <<points, idx, pre>>

Next ==
  \/ AllocRoot
  \/ Close
  \/ InsertPoint
  \/ Aggregate
  \/ \E i \in DOMAIN points : ForceEval(i)
  \/ \E i \in DOMAIN points : Integrate(i)
  \/ FreeTree

Spec == Init /\ [][Next]_vars

(***************************************************************************)
(* Vocabulary of the properties.                                           *)
(***************************************************************************)
\* the points whose quad_node_insert call of this frame has returned
Inserted ==
  IF pc = "build" THEN 1..(idx - 1)
  ELSE IF pc = "force" THEN DOMAIN points
  ELSE {}

InsideWorld(p) == Contains(WorldBoundary, p.position)

\* the nodes that store a point at the position of p
HoldersOf(p) ==
  {a \in DOMAIN heap : heap[a].point # NoPoint
                       /\ heap[a].point.position = p.position}

RECURSIVE Subtree(_, _)
Subtree(h, n) ==
  IF n = NULL THEN {}
  ELSE {n} \cup UNION {Subtree(h, h[n].children[k]) : k \in 1..4}

\* the points stored in the subtree of node a
StoredIn(a) == {b \in Subtree(heap, a) : heap[b].point # NoPoint}

\* the sum of f[b] over the b in S
RECURSIVE SumOver(_, _)
SumOver(S, f) ==
  IF S = {} THEN 0
  ELSE f[CHOOSE x \in S : TRUE]
         + SumOver(S \ {CHOOSE x \in S : TRUE}, f)

Stored == {b \in DOMAIN heap : heap[b].point # NoPoint}
MassOf == [b \in Stored |-> heap[b].point.mass]
MomentX == [b \in Stored |-> heap[b].point.mass * heap[b].point.position[1]]
MomentY == [b \in Stored |-> heap[b].point.mass * heap[b].point.position[2]]

MaxOf(S) == CHOOSE d \in S : \A e \in S : e <= d

RECURSIVE Depth(_, _)
Depth(h, n) ==
  IF quad_node_is_leaf(h[n]) THEN 0
  ELSE 1 + MaxOf({Depth(h, h[n].children[k]) : k \in 1..4})

\* how often a width can be halved before it is rounded to zero
RECURSIVE Halvings(_)
Halvings(w) == IF w = 0 THEN 0 ELSE 1 + Halvings(FHalf(w))

\* the increments this frame's force evaluation has added to point i
NewIncrements(i) ==
  SubSeq(points[i].velocity.dv, Len(pre[i].velocity.dv) + 1,
         Len(points[i].velocity.dv))

Evaluated(i) == pc = "force" /\ wpc[i] \in {"forced", "done"}

\* quad_node_compute_mass(root) has returned and the parallel loop has not
\* started
Aggregated == pc = "force" /\ \A i \in DOMAIN points : wpc[i] = "todo"

(***************************************************************************)
(* C1.  After the insertions of points with pairwise distinct positions,   *)
(* every point inside the root boundary is stored in exactly one leaf      *)
(* whose boundary contains it, every point outside is stored nowhere, and  *)
(* no node with children stores a point.                                   *)
(***************************************************************************)
DistinctPositions ==
  \A i, j \in Inserted : i # j => pre[i].position # pre[j].position

C1_InsertPartition ==
  DistinctPositions =>
    /\ \A i \in Inserted :
         IF InsideWorld(pre[i])
         THEN \E a \in DOMAIN heap :
                /\ HoldersOf(pre[i]) = {a}
                /\ quad_node_is_leaf(heap[a])
                /\ heap[a].point = pre[i]
                /\ Contains(heap[a].boundary, pre[i].position)
         ELSE HoldersOf(pre[i]) = {}
    /\ \A a \in DOMAIN heap :
         ~quad_node_is_leaf(heap[a]) => heap[a].point = NoPoint

(***************************************************************************)
(* C2.  After quad_node_compute_mass(root), the total_mass of every node   *)
(* is the sum of the masses of the points stored in its subtree, and where *)
(* that sum is positive center_of_mass is their mass-weighted mean         *)
(* position.                                                               *)
(***************************************************************************)
MeanPosition(S) ==
  << Rat(SumOver(S, MomentX), SumOver(S, MassOf)),
     Rat(SumOver(S, MomentY), SumOver(S, MassOf)) >>

C2_MassAggregation ==
  pc = "force" =>
    \A a \in DOMAIN heap :
      \A S \in {StoredIn(a)} :
        /\ heap[a].total_mass = SumOver(S, MassOf)
        /\ SumOver(S, MassOf) > 0 => heap[a].center_of_mass = MeanPosition(S)

\* an aggregated internal node over two points of different mass
C2_Witness ==
  /\ pc = "force"
  /\ ~quad_node_is_leaf(heap[root])
  /\ heap[root].total_mass = 3
  /\ Cardinality(StoredIn(root)) = 2
  /\ heap[root].center_of_mass[1][2] # 1

(***************************************************************************)
(* C3.  A point outside the world boundary at insertion time is dropped    *)
(* for the frame: it is stored in no node (so it adds to no total_mass),   *)
(* force evaluation leaves its velocity unchanged, and its position        *)
(* advances by that unchanged velocity.                                    *)
(***************************************************************************)
C3_DroppedPointUnaffected ==
  \A i \in DOMAIN points :
    (pc = "force" /\ ~InsideWorld(pre[i])) =>
      /\ HoldersOf(pre[i]) = {}
      /\ Evaluated(i) => points[i].velocity = pre[i].velocity
      /\ wpc[i] = "done" => points[i].position = Integrated(pre[i]).position

(***************************************************************************)
(* C4.  quad_node_compute_force never adds to a point's velocity an        *)
(* increment computed from a node whose subtree stores that point.         *)
(***************************************************************************)
C4_NoSelfInteraction ==
  pc = "force" =>
    \A i \in DOMAIN points :
      \A incs \in {quad_node_compute_force(heap, root, pre[i])} :
        \A k \in 1..Len(incs) :
          \A b \in StoredIn(incs[k].src) : heap[b].point # pre[i]

(***************************************************************************)
(* C5.  Whatever the order in which the iterations of the parallel loop    *)
(* run, point i is its value at the head of the frame until its force      *)
(* evaluation, then that value accelerated by the tree, then that value    *)
(* integrated: a function of the state before the loop only.               *)
(***************************************************************************)
C5_OrderIndependence ==
  pc = "force" =>
    \A i \in DOMAIN points :
      \A forced \in {Accelerated(pre[i],
                                 quad_node_compute_force(heap, root, pre[i]))} :
        /\ wpc[i] = "todo" => points[i] = pre[i]
        /\ wpc[i] = "forced" => points[i] = forced
        /\ wpc[i] = "done" => points[i] = Integrated(forced)

\* the second iteration has finished before the first has started, and has
\* changed its point
C5_Witness ==
  /\ pc = "force"
  /\ Len(points) >= 2
  /\ wpc[1] = "todo"
  /\ wpc[2] = "done"
  /\ points[2].velocity # pre[2].velocity
  /\ points[2].position # pre[2].position
  /\ quad_node_compute_force(heap, root, points[1]) # <<>>

(***************************************************************************)
(* C6.  For thresholds theta1 <= theta2, every leaf whose point            *)
(* contributes an increment under theta2 also contributes under theta1.    *)
(***************************************************************************)
Thetas == { <<0, 1>>, <<1, 4>>, THETA, <<1, 1>>, <<64, 1>> }

\* of a list of increments, the leaves they were computed from
LeavesOf(incs) == {incs[k].src : k \in {j \in 1..Len(incs) : incs[j].leaf}}

\* per threshold, the leaves that contribute to point i
LeafSources(i) ==
  [t \in Thetas |-> Then(ForceTheta(heap, root, pre[i], t), LeavesOf)]

C6_ThetaMonotone ==
  Aggregated =>
    \A i \in DOMAIN points :
      \A ls \in {LeafSources(i)} :
        \A t1, t2 \in Thetas :
          (t1 = t2 \/ RLt(t1, t2)) =>
            /\ ls[t2] \subseteq ls[t1]
            /\ Cardinality(ls[t2]) <= Cardinality(ls[t1])

\* a lower threshold replaces an aggregate by the exact interaction
C6_Witness ==
  /\ Aggregated
  /\ \E i \in DOMAIN points :
       /\ LeafSources(i)[THETA] = {}
       /\ ForceTheta(heap, root, pre[i], THETA) # <<>>
       /\ LeafSources(i)[<<1, 4>>] # {}

(***************************************************************************)
(* C7.  With exactly two points, of equal mass and at distinct positions   *)
(* inside the world boundary, the velocity changes of the two points are   *)
(* opposite: each increment of one is the negated increment of the other.  *)
(***************************************************************************)
Opposite(a, b) ==
  /\ Len(a) = Len(b)
  /\ \A k \in 1..Len(a) :
       /\ a[k].over = b[k].over
       /\ a[k].vec = << <<-b[k].vec[1][1], b[k].vec[1][2]>>,
                        <<-b[k].vec[2][1], b[k].vec[2][2]>> >>

C7_EqualAndOpposite ==
  ( /\ Len(points) = 2
    /\ Evaluated(1) /\ Evaluated(2)
    /\ pre[1].mass = pre[2].mass
    /\ pre[1].position # pre[2].position
    /\ InsideWorld(pre[1]) /\ InsideWorld(pre[2]) )
  => Opposite(NewIncrements(1), NewIncrements(2))

(***************************************************************************)
(* C8.  The phases of a frame are ordered build, aggregate, force          *)
(* evaluation, free: the parallel loop starts on the tree of all the       *)
(* points, aggregated; the tree does not change while the loop runs; at    *)
(* the head of the loop no node is allocated; every node was allocated in  *)
(* the current frame.                                                      *)
(***************************************************************************)
RECURSIVE InsertAll(_, _, _, _)
InsertAll(h, r, pts, k) ==
  IF k > Len(pts) THEN h
  ELSE Then(quad_node_insert(h, r, pts[k]),
            LAMBDA g : InsertAll(g, r, pts, k + 1))

PhaseOrder ==
  /\ pc = "force" => (idx = Len(points) + 1 /\ root = 1)
  /\ Aggregated =>
       heap = quad_node_compute_mass(
                InsertAll(quad_node_init(<<>>, WorldBoundary, tick),
                          1, pre, 1), 1)
  /\ (\E i \in DOMAIN points : wpc[i] # "idle") => pc = "force"
  /\ pc \in {"loop", "exit"} => (DOMAIN heap = {} /\ root = NULL)
  /\ \A a \in DOMAIN heap : heap[a].born = tick

TreeFrozen == (pc = "force" /\ pc' = "force") => heap' = heap

C8_PhaseOrder == []PhaseOrder /\ [][TreeFrozen]_vars

\* the second frame evaluates forces on a tree of its own
C8_Witness ==
  /\ tick = 1
  /\ pc = "force"
  /\ Cardinality(DOMAIN heap) > 1
  /\ \E i \in DOMAIN points : wpc[i] = "done"

(***************************************************************************)
(* C9.  The call inserting a point at the position of a stored point       *)
(* (inside the root boundary) never returns.                               *)
(***************************************************************************)
Duplicated(i) ==
  \E j \in Inserted : j # i /\ pre[j].position = pre[i].position

ClaimedMagnitude ==
  RDiv(RMul(GRAVITY_CONSTANT, RInt(1 * TIME_STEP)),
       RInt(100 * 100 + SOFTENING * SOFTENING))

\* |vec / sqrt(over)| = ClaimedMagnitude, for vec along the x axis
HasClaimedMagnitude(inc) ==
  /\ inc.vec[2] = RZero
  /\ RMul(RDiv(inc.vec[1], ClaimedMagnitude), RDiv(inc.vec[1], ClaimedMagnitude))
       = inc.over

C10_SoftenedInverseSquare ==
  ( /\ pre = << point_init(1, <<0, 0>>, <<0, 0>>),
                point_init(1, <<100, 0>>, <<0, 0>>) >>
    /\ Evaluated(1) /\ Evaluated(2) )
  => /\ Len(NewIncrements(1)) = 1
     /\ Len(NewIncrements(2)) = 1
     /\ NewIncrements(1)[1].vec[1][1] > 0
     /\ NewIncrements(2)[1].vec[1][1] < 0
     /\ HasClaimedMagnitude(NewIncrements(1)[1])
     /\ HasClaimedMagnitude(NewIncrements(2)[1])
=============================================================================
